---- MODULE Spec2Model ----
(***************************************************************************)
(* Model of generate_most_wanted_list (emp_isme14/most_wanted_otus.py).    *)
(*                                                                         *)
(* Text (paths, file lines, report rows) is a sequence of tokens whose     *)
(* concatenation is the Python string.  The characters the code looks at   *)
(* ("/", ".", tab, "|", blank, newline, "#", digits of a number) are       *)
(* always tokens of their own; other tokens are runs of ordinary letters.  *)
(* A float is represented by its value in hundredths (9.5 is 950).         *)
(***************************************************************************)
EXTENDS Integers, Sequences, FiniteSets, TLC

\* ---------------------------------------------------------------- bounds
\* Largest number of lines of the BLAST output file.
MaxLines == 2
\* Largest value of the top_n parameter.
MaxTopN == 2

\* ------------------------------------------------------------ text helpers
TAB == "\t"
NL == "\n"
Whitespace == {" ", TAB, NL}
Digits == <<"0", "1", "2", "3", "4", "5", "6", "7", "8", "9">>

Min(a, b) == IF a <= b THEN a ELSE b

\* '%d' % n, for n >= 0
RECURSIVE Dec(_)
Dec(n) ==
    IF n < 10 THEN <<Digits[n + 1]>>
    ELSE Dec(n \div 10) \o <<Digits[(n % 10) + 1]>>

\* s.rfind(c), 1-based; 0 when c does not occur
RFind(s, c) ==
    LET hits == {k \in 1..Len(s) : s[k] = c}
    IN IF hits = {} THEN 0 ELSE CHOOSE k \in hits : \A m \in hits : m <= k

\* s.find(c), 1-based; 0 when c does not occur
Find(s, c) ==
    LET hits == {k \in 1..Len(s) : s[k] = c}
    IN IF hits = {} THEN 0 ELSE CHOOSE k \in hits : \A m \in hits : k <= m

\* s.split(sep): the list of fields between the separators
RECURSIVE Split(_, _)
Split(s, sep) ==
    LET k == Find(s, sep)
    IN IF k = 0 THEN <<s>>
       ELSE <<SubSeq(s, 1, k - 1)>> \o Split(SubSeq(s, k + 1, Len(s)), sep)

\* s.strip(): leading and trailing whitespace removed
Strip(s) ==
    LET ink == {k \in 1..Len(s) : s[k] \notin Whitespace}
    IN IF ink = {} THEN <<>>
       ELSE SubSeq(s, CHOOSE k \in ink : \A m \in ink : k <= m,
                      CHOOSE k \in ink : \A m \in ink : m <= k)

\* s.split()[0] of a stripped, non-empty s: the first whitespace-free word
FirstWord(s) ==
    LET ws == {k \in 1..Len(s) : s[k] \in Whitespace}
    IN IF ws = {} THEN s
       ELSE SubSeq(s, 1, (CHOOSE k \in ws : \A m \in ws : k <= m) - 1)

\* ------------------------------------------------------------ os.path
\* os.path.join(a, b)
join(a, b) ==
    IF Len(b) > 0 /\ b[1] = "/" THEN b
    ELSE IF a = <<>> \/ a[Len(a)] = "/" THEN a \o b
    ELSE a \o <<"/">> \o b

\* os.path.basename(p)
basename(p) == SubSeq(p, RFind(p, "/") + 1, Len(p))

\* os.path.splitext(p): <<root, ext>>; leading dots of the file name are
\* no extension
splitext(p) ==
    LET sep == RFind(p, "/")
        dot == RFind(p, ".")
    IN IF dot > sep /\ \E k \in (sep + 1)..(dot - 1) : p[k] # "."
       THEN <<SubSeq(p, 1, dot - 1), SubSeq(p, dot, Len(p))>>
       ELSE <<p, <<>>>>

\* qiime.util.add_filename_suffix(filepath, suffix): the file name of
\* filepath with suffix inserted before its extension (directory dropped)
add_filename_suffix(filepath, suffix) ==
    LET re == splitext(basename(filepath))
    IN re[1] \o suffix \o re[2]

\* ------------------------------------------------------------ floats
\* str(x) of a float held in hundredths: 950 -> "9.5", 1000 -> "10.0"
StrFloat(h) ==
    LET frac == h % 100
    IN Dec(h \div 100) \o <<".">> \o
       (IF frac % 10 = 0 THEN Dec(frac \div 10)
        ELSE <<Digits[(frac \div 10) + 1], Digits[(frac % 10) + 1]>>)

\* '%f' % x of a float held in hundredths: six decimals
FmtF(h) ==
    Dec(h \div 100) \o <<".">> \o
    <<Digits[((h % 100) \div 10) + 1], Digits[(h % 10) + 1]>> \o
    <<"0", "0", "0", "0">>

DigitVal(c) == (CHOOSE k \in 1..10 : Digits[k] = c) - 1

RECURSIVE NatOf(_)
NatOf(ds) ==
    IF ds = <<>> THEN 0
    ELSE 10 * NatOf(SubSeq(ds, 1, Len(ds) - 1)) + DigitVal(ds[Len(ds)])

IsDigits(ds) == \A k \in 1..Len(ds) : \E d \in 1..10 : Digits[d] = ds[k]

\* float(s) for decimal numerals with at most two decimals, in hundredths;
\* -1 stands for ValueError
ParseFloat(s) ==
    LET parts == Split(s, ".")
    IN IF Len(parts) = 1 /\ s # <<>> /\ IsDigits(s) THEN 100 * NatOf(s)
       ELSE IF Len(parts) = 2 /\ IsDigits(parts[1]) /\ IsDigits(parts[2])
               /\ Len(parts[1]) + Len(parts[2]) > 0 /\ Len(parts[2]) <= 2
       THEN 100 * NatOf(parts[1])
            + (IF Len(parts[2]) = 0 THEN 0
               ELSE IF Len(parts[2]) = 1 THEN 10 * NatOf(parts[2])
               ELSE NatOf(parts[2]))
       ELSE -1

\* ------------------------------------------------------------ parameters
\* Values of the parameters of generate_most_wanted_list that the runs use.
OutputDirs == {<<"out">>, <<"/", "w", "/", "out", "/">>}
OtuTableFps == {<<"in", "/", "otus", ".", "biom">>, <<"otus">>}
RepSetFps == {<<"rep", ".", "fna">>, <<"/", "d", ".", "v", "/", "rep">>}
Categories == {<<"env">>, <<"a", "/", "b">>}

\* One run per value of force and top_n, the paths fixed.
ArgsMain ==
    [output_dir : {<<"out">>},
     otu_table_fp : {<<"in", "/", "otus", ".", "biom">>},
     rep_set_fp : {<<"rep", ".", "fna">>},
     gg_fp : {<<"gg", "/", "gg97", ".", "fasta">>},
     nt_fp : {<<"nt">>},
     mapping_fp : {<<"map", ".", "txt">>},
     mapping_category : {<<"env">>},
     top_n : 0..MaxTopN,
     min_abundance : {1},
     max_abundance : {25},
     min_categories : {2},
     max_gg_similarity : {97},
     e_value : {1},
     word_size : {30},
     jobs_to_start : {4},
     force : BOOLEAN]

\* One run per combination of the path-shaped parameters.
ArgsPaths ==
    [output_dir : OutputDirs,
     otu_table_fp : OtuTableFps,
     rep_set_fp : RepSetFps,
     gg_fp : {<<"gg", "/", "gg97", ".", "fasta">>},
     nt_fp : {<<"nt">>},
     mapping_fp : {<<"map", ".", "txt">>},
     mapping_category : Categories,
     top_n : {1},
     min_abundance : {1},
     max_abundance : {25},
     min_categories : {2},
     max_gg_similarity : {97},
     e_value : {1},
     word_size : {30},
     jobs_to_start : {4},
     force : {FALSE}]

\* ------------------------------------------------------------ state
VARIABLES
    args,             \* the parameters of the call
    pc,               \* position in generate_most_wanted_list
    err,              \* the exception that ended the run, or "none"
    existing,         \* directories present on disk
    dirs,             \* directories created by makedirs in this run
    logger,           \* "none", "open" or "closed"
    log,              \* records of logger.write: [msg, open]
    loggerCloses,     \* number of logger.close() calls
    commands,         \* the command list being built
    handlerCalls,     \* calls of command_handler: [commands, close_logger_on_success]
    opened,           \* paths opened for reading, in order
    blast_results,    \* lines of the BLAST output file
    top_n_mw,         \* list of <<otu_id, subject_id, percent_identity>>
    mw_seqs,          \* list of <<seq_id, seq>>, later entries win
    otu_table,        \* the parsed collapsed OTU table
    mw_tsv_f,         \* [state, path, out, closes]: the TSV report file
    mw_html_f,        \* [state, path, out, closes]: the HTML report file
    saved,            \* paths given to savefig, in order
    idx               \* rows of top_n_mw already handled by the report loop

vars == <<args, pc, err, existing, dirs, logger, log, loggerCloses, commands,
          handlerCalls, opened, blast_results, top_n_mw, mw_seqs, otu_table,
          mw_tsv_f, mw_html_f, saved, idx>>

output_img_dir == join(args.output_dir, <<"img">>)

Unopened == [state |-> "unopened", path |-> <<>>, out |-> <<>>, closes |-> 0]

InitWith(A) ==
    /\ args \in A
    /\ pc = "makedirs"
    /\ err = "none"
    /\ existing \in {{}, {args.output_dir}, {args.output_dir, output_img_dir}}
    /\ dirs = {}
    /\ logger = "none"
    /\ log = <<>>
    /\ loggerCloses = 0
    /\ commands = <<>>
    /\ handlerCalls = <<>>
    /\ opened = <<>>
    /\ blast_results = <<>>
    /\ top_n_mw = <<>>
    /\ mw_seqs = <<>>
    /\ otu_table = [SampleIds |-> <<>>, obs |-> <<>>]
    /\ mw_tsv_f = Unopened
    /\ mw_html_f = Unopened
    /\ saved = <<>>
    /\ idx = 0

Init == InitWith(ArgsMain)

InitPaths == InitWith(ArgsPaths)

\* ------------------------------------------------------------ paths
novel_otu_table_fp ==
    join(args.output_dir, add_filename_suffix(args.otu_table_fp, <<"_novel">>))

novel_abund_otu_table_fp ==
    join(args.output_dir,
         add_filename_suffix(novel_otu_table_fp,
             <<"_min">> \o Dec(args.min_abundance)
             \o <<"_max">> \o Dec(args.max_abundance)))

otu_table_by_samp_type_fp ==
    join(args.output_dir,
         add_filename_suffix(novel_abund_otu_table_fp,
             <<"_">> \o args.mapping_category))

otu_table_by_samp_type_ms_fp ==
    join(args.output_dir,
         add_filename_suffix(otu_table_by_samp_type_fp,
             <<"_ms">> \o Dec(args.min_categories)))

candidate_rep_set_fp ==
    join(args.output_dir,
         add_filename_suffix(args.rep_set_fp, <<"_most_wanted_candidates">>))

uclust_output_dir ==
    join(args.output_dir,
         <<"most_wanted_candidates_">> \o basename(args.gg_fp) \o <<"_">>
         \o StrFloat(args.max_gg_similarity))

uclust_failures_fp ==
    join(uclust_output_dir,
         splitext(basename(candidate_rep_set_fp))[1] \o <<"_failures", ".", "txt">>)

\* cand_gg_dis_rep_set_fp without the output directory joined in front
cand_gg_dis_rep_set_fp_NoDir ==
    add_filename_suffix(candidate_rep_set_fp, <<"_failures">>)

cand_gg_dis_rep_set_fp ==
    join(args.output_dir,
         add_filename_suffix(candidate_rep_set_fp, <<"_failures">>))

blast_output_dir == join(args.output_dir, <<"blast_output">>)

blast_results_fp ==
    join(blast_output_dir,
         splitext(basename(cand_gg_dis_rep_set_fp))[1] \o <<"_blast_out", ".", "txt">>)

\* ------------------------------------------------------------ commands
\* One entry of the command list: a group holding a single
\* (description, command) pair; the command is its program and options.
Group(desc, prog, opts) ==
    << [desc |-> desc, prog |-> prog, opts |-> opts] >>

CmdFilterGG ==
    Group(<<"Filtering out all GG reference OTUs">>,
          "filter_otus_from_otu_table.py",
          << <<"-i", args.otu_table_fp>>, <<"-o", novel_otu_table_fp>>,
             <<"-e", args.gg_fp>> >>)

CmdFilterAbundance ==
    Group(<<"Filtering out all OTUs that do not fall within the specified abundance threshold">>,
          "filter_otus_from_otu_table.py",
          << <<"-i", novel_otu_table_fp>>, <<"-o", novel_abund_otu_table_fp>>,
             <<"-n", Dec(args.min_abundance)>>,
             <<"-x", Dec(args.max_abundance)>> >>)

CmdCollapse ==
    Group(<<"Collapsing OTU table by ">> \o args.mapping_category,
          "summarize_otu_by_cat.py",
          << <<"-c", novel_abund_otu_table_fp>>,
             <<"-o", otu_table_by_samp_type_fp>>,
             <<"-m", args.mapping_category>>, <<"-i", args.mapping_fp>> >>)

CmdFilterMinSamples ==
    Group(<<"Filtering OTU table to include only OTUs that appear in at least ">>
              \o Dec(args.min_categories) \o <<" sample groups">>,
          "filter_otus_from_otu_table.py",
          << <<"-i", otu_table_by_samp_type_fp>>,
             <<"-o", otu_table_by_samp_type_ms_fp>>,
             <<"-s", Dec(args.min_categories)>> >>)

CmdFilterRepSet ==
    Group(<<"Filtering representative set to include only the latest candidate OTUs">>,
          "filter_fasta.py",
          << <<"-f", args.rep_set_fp>>, <<"-o", candidate_rep_set_fp>>,
             <<"-b", otu_table_by_samp_type_ms_fp>> >>)

CmdUclust ==
    Group(<<"Running uclust to get list of sequences that don't hit the maximum GG similarity threshold">>,
          "parallel_pick_otus_uclust_ref.py",
          << <<"-i", candidate_rep_set_fp>>, <<"-o", uclust_output_dir>>,
             <<"-r", args.gg_fp>>, <<"-s", StrFloat(args.max_gg_similarity)>>,
             <<"-O", Dec(args.jobs_to_start)>> >>)

CmdFilterFailures ==
    Group(<<"Filtering candidate sequences to only include uclust failures">>,
          "filter_fasta.py",
          << <<"-f", candidate_rep_set_fp>>, <<"-s", uclust_failures_fp>>,
             <<"-o", cand_gg_dis_rep_set_fp>> >>)

CmdBlast ==
    Group(<<"BLASTing candidate sequences against nt database">>,
          "parallel_blast.py",
          << <<"-i", cand_gg_dis_rep_set_fp>>, <<"-o", blast_output_dir>>,
             <<"-r", args.nt_fp>>, <<"-D", <<>>>>,
             <<"-e", FmtF(args.e_value)>>, <<"-w", Dec(args.word_size)>>,
             <<"-O", Dec(args.jobs_to_start)>> >>)

\* ------------------------------------------------------------ file contents
\* What the external tools may have left on disk for the report step.
LComment == <<" ", "#", " ", "BLASTN", NL>>
LBlank == <<NL>>
LHitA == <<"a", TAB, "gi", "|", "1", "|", "gb", "|", "X1", TAB, "9", ".", "5", TAB, "40", NL>>
LHitB == <<"b", TAB, "gi", "|", "2", "|", "gb", "|", "X2", TAB, "1", "0", TAB, "40", NL>>
LHitA2 == <<"a", TAB, "gi", "|", "3", "|", "gb", "|", "X3", TAB, "1", "0", TAB, "38", NL>>
LShort == <<"b", TAB, "X", NL>>
LinePool == {LComment, LBlank, LHitA, LHitB, LHitA2, LShort}

BlastFiles == UNION {[1..n -> LinePool] : n \in 0..MaxLines}

\* (label, sequence) records of the candidate FASTA file
FastaAB == << <<<<"a", " ", "len=4">>, <<"ACGT">>>>, <<<<"b">>, <<"GGCC">>>> >>
FastaA == << <<<<"a">>, <<"ACGT">>>> >>
FastaFiles == {FastaAB, FastaA}

\* the collapsed OTU table: sample ids, and per observation id its
\* taxonomy metadata and its vector of counts
TableOK ==
    [SampleIds |-> <<"soil", "water">>,
     obs |-> (<<"a">> :> [taxonomy |-> <<"k__Bacteria">>, counts |-> <<3, 1>>])
             @@ (<<"b">> :> [taxonomy |-> <<"k__Archaea">>, counts |-> <<0, 5>>])]
TableShortB ==
    [SampleIds |-> <<"soil", "water">>,
     obs |-> (<<"a">> :> [taxonomy |-> <<"k__Bacteria">>, counts |-> <<3, 1>>])
             @@ (<<"b">> :> [taxonomy |-> <<"k__Archaea">>, counts |-> <<5>>])]
Tables == {TableOK, TableShortB}

\* ------------------------------------------------------------ BLAST hits
\* the body of the loop over the lines: <<>> for a skipped line, else
\* <<(otu_id, subject_id, percent_identity)>>
ParseLine(line) ==
    LET l == Strip(line)
    IN IF l # <<>> /\ l[1] # "#"
       THEN LET f == Split(l, TAB)
            IN << <<f[1], f[2], ParseFloat(f[3])>> >>
       ELSE <<>>

\* the exception the loop body raises on this line, or "none"
LineError(line) ==
    LET l == Strip(line)
    IN IF l # <<>> /\ l[1] # "#"
       THEN LET f == Split(l, TAB)
            IN IF Len(f) < 3 THEN "IndexError"
               ELSE IF ParseFloat(f[3]) = -1 THEN "ValueError"
               ELSE "none"
       ELSE "none"

RECURSIVE ParseLines(_)
ParseLines(lines) ==
    IF lines = <<>> THEN <<>>
    ELSE ParseLine(Head(lines)) \o ParseLines(Tail(lines))

FirstLineError(lines) ==
    LET bad == {k \in 1..Len(lines) : LineError(lines[k]) # "none"}
    IN IF bad = {} THEN "none"
       ELSE LineError(lines[CHOOSE k \in bad : \A m \in bad : k <= m])

\* InsertPos that puts x before the items of equal key: ties come out reversed
InsertPos_BeforeEqual(items, x) ==
    Cardinality({k \in 1..Len(items) : items[k][3] < x[3]}) + 1

\* where sorted() puts x among the already sorted items: behind every
\* item whose key is not greater (the sort is stable)
InsertPos(items, x) ==
    Cardinality({k \in 1..Len(items) : items[k][3] <= x[3]}) + 1

Insert(items, x) ==
    LET p == InsertPos(items, x)
    IN SubSeq(items, 1, p - 1) \o <<x>> \o SubSeq(items, p, Len(items))

\* Sorted without the sort: the hits stay in file order
Sorted_FileOrder(items) == items

\* sorted(items, key=itemgetter(2))
RECURSIVE Sorted(_)
Sorted(items) ==
    IF items = <<>> THEN <<>>
    ELSE Insert(Sorted(SubSeq(items, 1, Len(items) - 1)), items[Len(items)])

\* items[:n]
Slice(items, n) ==
    IF n >= 0 THEN SubSeq(items, 1, Min(n, Len(items)))
    ELSE SubSeq(items, 1, Len(items) + n)

TopN(items, n) == Slice(Sorted(items), n)

\* ------------------------------------------------------------ report text
\* the dict built from the FASTA records: a later record replaces an
\* earlier one with the same id
SeqId(label) == FirstWord(Strip(label))

SeqDict(records) ==
    [id \in {SeqId(records[k][1]) : k \in 1..Len(records)} |->
        LET ks == {k \in 1..Len(records) : SeqId(records[k][1]) = id}
        IN records[CHOOSE k \in ks : \A m \in ks : m <= k][2]]

tsv_header ==
    <<"OTU ID", TAB, "Sequence", TAB, "Greengenes taxonomy", TAB,
      "NCBI nt closest match", TAB, "NCBI nt % identity">>

\* html_columns without the abundance column added to the header
html_columns_NoAbundance == Split(tsv_header, TAB)

html_columns ==
    Split(tsv_header \o <<TAB, "Abundance by ">> \o args.mapping_category, TAB)

RECURSIVE HtmlHeader(_)
HtmlHeader(cols) ==
    IF cols = <<>> THEN <<>>
    ELSE <<"<th>">> \o Head(cols) \o <<"</th>">> \o HtmlHeader(Tail(cols))

mw_tsv_fp ==
    join(args.output_dir,
         <<"top_">> \o Dec(args.top_n) \o <<"_most_wanted_otus", ".", "txt">>)

mw_html_fp ==
    join(args.output_dir,
         <<"top_">> \o Dec(args.top_n) \o <<"_most_wanted_otus", ".", "html">>)

gb_id(subject_id) == Split(subject_id, "|")[4]

ncbi_link(subject_id) ==
    <<"http://www.ncbi.nlm.nih.gov/nuccore/">> \o gb_id(subject_id)

pie_chart_fp(otu_id) ==
    join(<<"img">>,
         <<"abundance_by_">> \o args.mapping_category \o <<"_">> \o otu_id
         \o <<".", "png">>)

TsvRow(hit) ==
    hit[1] \o <<TAB>> \o mw_seqs[hit[1]] \o <<TAB>>
    \o otu_table.obs[hit[1]].taxonomy \o <<TAB>> \o gb_id(hit[2]) \o <<TAB>>
    \o StrFloat(hit[3]) \o <<NL>>

HtmlRow(hit) ==
    <<"<tr>", "<td>">> \o hit[1] \o <<"</td>", "<td>">> \o mw_seqs[hit[1]]
    \o <<"</td>", "<td>">> \o otu_table.obs[hit[1]].taxonomy
    \o <<"</td>", "<td>", "<a href=\"">> \o ncbi_link(hit[2])
    \o <<"\" target=\"_blank\">">> \o gb_id(hit[2])
    \o <<"</a>", "</td>", "<td>">> \o StrFloat(hit[3])
    \o <<"</td>", "<td>", "<img src=\"">> \o pie_chart_fp(hit[1])
    \o <<"\" />", "</td>", "</tr>">>

\* RowError without the comparison of the two lengths
RowError_NoCountCheck(hit) ==
    IF hit[1] \notin DOMAIN mw_seqs THEN "KeyError"
    ELSE IF hit[1] \notin DOMAIN otu_table.obs THEN "UnknownID"
    ELSE IF Len(Split(hit[2], "|")) < 4 THEN "IndexError"
    ELSE "none"

\* the exception that ends the loop body for this hit before anything is
\* drawn or written, or "none"
RowError(hit) ==
    IF hit[1] \notin DOMAIN mw_seqs THEN "KeyError"
    ELSE IF hit[1] \notin DOMAIN otu_table.obs THEN "UnknownID"
    ELSE IF Len(Split(hit[2], "|")) < 4 THEN "IndexError"
    ELSE IF Len(otu_table.obs[hit[1]].counts) # Len(otu_table.SampleIds)
    THEN "WorkflowError: counts"
    ELSE "none"

\* ------------------------------------------------------------ actions
LogWrite(msg) == Append(log, [msg |-> msg, open |-> logger = "open"])

\* MakeDirs with the force flag ignored: an existing directory always raises
MakeDirs_IgnoreForce ==
    /\ pc = "makedirs"
    /\ LET exists == args.output_dir \in existing
       IN IF exists
          THEN /\ pc' = "raised"
               /\ err' = "WorkflowError: exists"
               /\ UNCHANGED <<existing, dirs>>
          ELSE /\ pc' = "logger"
               /\ err' = err
               /\ existing' = existing \cup {args.output_dir}
               /\ dirs' = dirs \cup {args.output_dir}
    /\ UNCHANGED <<args, logger, log, loggerCloses, commands, handlerCalls,
                   opened, blast_results, top_n_mw, mw_seqs, otu_table,
                   mw_tsv_f, mw_html_f, saved, idx>>

\* try: makedirs(output_dir) / except OSError: if not force: raise
\* (makedirs raises OSError when the directory is already there)
MakeDirs ==
    /\ pc = "makedirs"
    /\ LET exists == args.output_dir \in existing
       IN IF exists /\ ~args.force
          THEN /\ pc' = "raised"
               /\ err' = "WorkflowError: exists"
               /\ UNCHANGED <<existing, dirs>>
          ELSE /\ pc' = "logger"
               /\ err' = err
               /\ existing' = existing \cup {args.output_dir}
               /\ dirs' = IF exists THEN dirs ELSE dirs \cup {args.output_dir}
    /\ UNCHANGED <<args, logger, log, loggerCloses, commands, handlerCalls,
                   opened, blast_results, top_n_mw, mw_seqs, otu_table,
                   mw_tsv_f, mw_html_f, saved, idx>>

\* logger = WorkflowLogger(...); commands = []
CreateLogger ==
    /\ pc = "logger"
    /\ logger' = "open"
    /\ commands' = <<>>
    /\ pc' = "cmd1"
    /\ UNCHANGED <<args, existing, err, dirs, log, loggerCloses, handlerCalls, opened,
                   blast_results, top_n_mw, mw_seqs, otu_table, mw_tsv_f,
                   mw_html_f, saved, idx>>

\* commands.append(group), then on to the next statement
AppendCommand(at, group, next) ==
    /\ pc = at
    /\ commands' = Append(commands, group)
    /\ pc' = next
    /\ UNCHANGED <<args, existing, err, dirs, logger, log, loggerCloses, handlerCalls,
                   opened, blast_results, top_n_mw, mw_seqs, otu_table,
                   mw_tsv_f, mw_html_f, saved, idx>>

\* the collapse step and the minimum-sample-group filter in swapped order
AppendCollapse_Swapped == AppendCommand("cmd3", CmdFilterMinSamples, "cmd4")
AppendFilterGG == AppendCommand("cmd1", CmdFilterGG, "cmd2")
AppendFilterAbundance == AppendCommand("cmd2", CmdFilterAbundance, "cmd3")
AppendCollapse == AppendCommand("cmd3", CmdCollapse, "cmd4")
AppendFilterMinSamples == AppendCommand("cmd4", CmdFilterMinSamples, "cmd5")
AppendFilterRepSet == AppendCommand("cmd5", CmdFilterRepSet, "cmd6")
AppendUclust == AppendCommand("cmd6", CmdUclust, "cmd7")
AppendFilterFailures == AppendCommand("cmd7", CmdFilterFailures, "cmd8")
AppendBlast == AppendCommand("cmd8", CmdBlast, "handler")

\* the handler asked to close the logger when the commands succeeded
close_logger_on_success_True == TRUE

\* the value passed for close_logger_on_success
close_logger_on_success == FALSE

\* command_handler(commands, status_update_callback, logger,
\*                 close_logger_on_success=False): the injected handler runs
\* the groups and returns, or raises; it closes the logger on success only
\* when asked to
CallCommandHandler ==
    /\ pc = "handler"
    /\ handlerCalls' = Append(handlerCalls,
           [commands |-> commands,
            close_logger_on_success |-> close_logger_on_success])
    /\ \E returns \in BOOLEAN :
          IF returns
          THEN /\ pc' = "read_blast"
               /\ err' = err
               /\ logger' = IF close_logger_on_success THEN "closed" ELSE logger
          ELSE /\ pc' = "raised"
               /\ err' = "command_handler"
               /\ logger' = logger
    /\ UNCHANGED <<args, existing, dirs, log, loggerCloses, commands, opened,
                   blast_results, top_n_mw, mw_seqs, otu_table, mw_tsv_f,
                   mw_html_f, saved, idx>>

\* logger.write; open the BLAST output; collect the hits; sort; cut
ReadBlastResults ==
    /\ pc = "read_blast"
    /\ log' = LogWrite("Reading in BLAST results")
    /\ opened' = Append(opened, blast_results_fp)
    /\ \E lines \in BlastFiles :
          /\ blast_results' = lines
          /\ IF FirstLineError(lines) # "none"
             THEN /\ pc' = "raised"
                  /\ err' = FirstLineError(lines)
                  /\ top_n_mw' = top_n_mw
             ELSE /\ pc' = "read_candidates"
                  /\ err' = err
                  /\ top_n_mw' = TopN(ParseLines(lines), args.top_n)
    /\ UNCHANGED <<args, existing, dirs, logger, loggerCloses, commands, handlerCalls,
                   mw_seqs, otu_table, mw_tsv_f, mw_html_f, saved, idx>>

\* logger.write; read the candidate sequences and the collapsed OTU table
ReadCandidates ==
    /\ pc = "read_candidates"
    /\ log' = LogWrite("Reading in candidate sequences")
    /\ opened' = opened \o <<cand_gg_dis_rep_set_fp, otu_table_by_samp_type_ms_fp>>
    /\ \E fasta \in FastaFiles : mw_seqs' = SeqDict(fasta)
    /\ \E table \in Tables : otu_table' = table
    /\ pc' = "open_reports"
    /\ UNCHANGED <<args, existing, err, dirs, logger, loggerCloses, commands,
                   handlerCalls, blast_results, top_n_mw, mw_tsv_f, mw_html_f,
                   saved, idx>>

\* logger.write; open both report files and write their header lines
OpenReports ==
    /\ pc = "open_reports"
    /\ log' = LogWrite("Writing most wanted OTUs results")
    /\ mw_tsv_f' = [state |-> "open", path |-> mw_tsv_fp,
                    out |-> <<tsv_header \o <<NL>>>>, closes |-> 0]
    /\ mw_html_f' = [state |-> "open", path |-> mw_html_fp,
                     out |-> << <<"<table>", "<tr>">> \o HtmlHeader(html_columns)
                                \o <<"</tr>">> >>,
                     closes |-> 0]
    /\ pc' = "report_loop"
    /\ UNCHANGED <<args, existing, err, dirs, logger, loggerCloses, commands,
                   handlerCalls, opened, blast_results, top_n_mw, mw_seqs,
                   otu_table, saved, idx>>

\* one pass of the loop over top_n_mw; makedirs(output_img_dir) creates the
\* img directory unless it is already there (OSError, passed over)
ReportRow ==
    /\ pc = "report_loop"
    /\ idx < Len(top_n_mw)
    /\ LET hit == top_n_mw[idx + 1]
       IN IF RowError(hit) # "none"
          THEN /\ pc' = "raised"
               /\ err' = RowError(hit)
               /\ UNCHANGED <<existing, dirs, saved, mw_tsv_f, mw_html_f, idx>>
          ELSE /\ existing' = existing \cup {output_img_dir}
               /\ dirs' = IF output_img_dir \in existing THEN dirs
                          ELSE dirs \cup {output_img_dir}
               /\ saved' = Append(saved, join(args.output_dir, pie_chart_fp(hit[1])))
               /\ mw_tsv_f' = [mw_tsv_f EXCEPT !.out = Append(@, TsvRow(hit))]
               /\ mw_html_f' = [mw_html_f EXCEPT !.out = Append(@, HtmlRow(hit))]
               /\ idx' = idx + 1
               /\ UNCHANGED <<pc, err>>
    /\ UNCHANGED <<args, logger, log, loggerCloses, commands, handlerCalls,
                   opened, blast_results, top_n_mw, mw_seqs, otu_table>>

\* mw_html_f.write('</table>')
WriteTableEnd ==
    /\ pc = "report_loop"
    /\ idx = Len(top_n_mw)
    /\ mw_html_f' = [mw_html_f EXCEPT !.out = Append(@, <<"</table>">>)]
    /\ pc' = "close_tsv"
    /\ UNCHANGED <<args, existing, err, dirs, logger, log, loggerCloses, commands,
                   handlerCalls, opened, blast_results, top_n_mw, mw_seqs,
                   otu_table, mw_tsv_f, saved, idx>>

\* mw_tsv_f.close()
CloseTsv ==
    /\ pc = "close_tsv"
    /\ mw_tsv_f' = [mw_tsv_f EXCEPT !.state = "closed", !.closes = @ + 1]
    /\ pc' = "close_html"
    /\ UNCHANGED <<args, existing, err, dirs, logger, log, loggerCloses, commands,
                   handlerCalls, opened, blast_results, top_n_mw, mw_seqs,
                   otu_table, mw_html_f, saved, idx>>

\* mw_html_f.close()
CloseHtml ==
    /\ pc = "close_html"
    /\ mw_html_f' = [mw_html_f EXCEPT !.state = "closed", !.closes = @ + 1]
    /\ pc' = "close_logger"
    /\ UNCHANGED <<args, existing, err, dirs, logger, log, loggerCloses, commands,
                   handlerCalls, opened, blast_results, top_n_mw, mw_seqs,
                   otu_table, mw_tsv_f, saved, idx>>

\* logger.close()
CloseLogger ==
    /\ pc = "close_logger"
    /\ logger' = "closed"
    /\ loggerCloses' = loggerCloses + 1
    /\ pc' = "done"
    /\ UNCHANGED <<args, existing, err, dirs, log, commands, handlerCalls, opened,
                   blast_results, top_n_mw, mw_seqs, otu_table, mw_tsv_f,
                   mw_html_f, saved, idx>>

Next ==
    \/ MakeDirs
    \/ CreateLogger
    \/ AppendFilterGG
    \/ AppendFilterAbundance
    \/ AppendCollapse
    \/ AppendFilterMinSamples
    \/ AppendFilterRepSet
    \/ AppendUclust
    \/ AppendFilterFailures
    \/ AppendBlast
    \/ CallCommandHandler
    \/ ReadBlastResults
    \/ ReadCandidates
    \/ OpenReports
    \/ ReportRow
    \/ WriteTableEnd
    \/ CloseTsv
    \/ CloseHtml
    \/ CloseLogger

Spec == Init /\ [][Next]_vars

SpecPaths == InitPaths /\ [][Next]_vars

\* ------------------------------------------------------------ reading the outputs
ReportOpened == mw_tsv_f.state # "unopened" \/ mw_html_f.state # "unopened"

\* the data lines of the TSV file and the data rows of the HTML file
TsvRows == IF mw_tsv_f.out = <<>> THEN <<>> ELSE Tail(mw_tsv_f.out)

HtmlRows ==
    IF mw_html_f.out = <<>> THEN <<>>
    ELSE SelectSeq(Tail(mw_html_f.out), LAMBDA w : w # <<"</table>">>)

\* the tab-separated fields of a written line, its newline dropped
Fields(ln) == Split(SubSeq(ln, 1, Len(ln) - 1), TAB)

\* the texts enclosed by the tokens open and close, in order
RECURSIVE Cells(_, _, _)
Cells(text, open, close) ==
    LET a == Find(text, open)
    IN IF a = 0 THEN <<>>
       ELSE LET rest == SubSeq(text, a + 1, Len(text))
                b == Find(rest, close)
            IN IF b = 0 THEN <<>>
               ELSE <<SubSeq(rest, 1, b - 1)>>
                    \o Cells(SubSeq(rest, b + 1, Len(rest)), open, close)

\* the value of an option of the k-th command of a command list
Opt(cmds, k, flag) ==
    LET o == cmds[k][1].opts
    IN o[CHOOSE j \in 1..Len(o) : o[j][1] = flag][2]

IsPrefix(a, b) == Len(a) <= Len(b) /\ SubSeq(b, 1, Len(a)) = a

\* a line of the BLAST output that is a hit: it has a non-whitespace
\* character and the first of these is not "#"
IsHitLine(line) ==
    \E k \in 1..Len(line) :
        /\ line[k] \notin Whitespace
        /\ line[k] # "#"
        /\ \A m \in 1..(k - 1) : line[m] \in Whitespace

HitLines == SelectSeq(blast_results, IsHitLine)

\* (otu id, GenBank id, percent identity) of a hit line and of a TSV row
HitKey(line) ==
    LET f == Split(Strip(line), TAB)
    IN <<f[1], Split(f[2], "|")[4], ParseFloat(f[3])>>

RowKey(row) ==
    LET f == Fields(row)
    IN <<f[1], f[4], ParseFloat(f[5])>>

CountIn(seq, x) == Cardinality({k \in 1..Len(seq) : seq[k] = x})

HitKeys == [k \in 1..Len(HitLines) |-> HitKey(HitLines[k])]

RowKeys == [k \in 1..Len(TsvRows) |-> RowKey(TsvRows[k])]

\* ------------------------------------------------------------ claims
\* C1: generate_most_wanted_list raises the "directory exists" WorkflowError
\* exactly when makedirs did not create the output directory and force is
\* false; it does so before the logger exists, before any command is built
\* or handed to command_handler and before any report file is opened; when
\* force is true or the directory was created the run goes on to the
\* command-building step.
C1_RefusesExistingDirUnlessForced ==
    /\ [](err = "WorkflowError: exists" =>
            /\ ~args.force
            /\ args.output_dir \in existing
            /\ args.output_dir \notin dirs
            /\ logger = "none" /\ log = <<>>
            /\ commands = <<>> /\ handlerCalls = <<>>
            /\ opened = <<>> /\ ~ReportOpened /\ saved = <<>>)
    /\ []((args.force \/ args.output_dir \in dirs) => err # "WorkflowError: exists")
    /\ [][pc = "makedirs" =>
            IF ~args.force /\ args.output_dir \notin dirs'
            THEN pc' = "raised" /\ err' = "WorkflowError: exists"
            ELSE pc' = "logger" /\ err' = "none"]_vars

\* C1 witness: a run refused for an existing directory without force
C1_Witness ==
    pc = "raised" /\ err = "WorkflowError: exists" /\ ~args.force

\* the two lengths the report loop compares for a hit
CountsMismatch(hit) ==
    Len(otu_table.obs[hit[1]].counts) # Len(otu_table.SampleIds)

\* C2: when the report loop reaches an OTU (present in the FASTA file) whose
\* count vector is not as long as the list of sample ids it raises the
\* WorkflowError; when it has been raised, the OTU at fault is the next one
\* of the loop, no chart was saved and no TSV or HTML row written for it or
\* for a later OTU; if no selected OTU has a mismatch it is never raised.
C2_CountMismatchRaisesBeforeOutput ==
    /\ [](err = "WorkflowError: counts" =>
            /\ idx < Len(top_n_mw)
            /\ CountsMismatch(top_n_mw[idx + 1])
            /\ Len(saved) = idx
            /\ Len(TsvRows) = idx
            /\ Len(HtmlRows) = idx
            /\ \A k \in 1..idx : ~CountsMismatch(top_n_mw[k]))
    /\ []((pc \notin {"makedirs", "logger"} /\ otu_table.obs # <<>>
           /\ \A k \in 1..Len(top_n_mw) : ~CountsMismatch(top_n_mw[k]))
          => err # "WorkflowError: counts")
    /\ [][(pc = "report_loop" /\ idx < Len(top_n_mw)
           /\ top_n_mw[idx + 1][1] \in DOMAIN mw_seqs
           /\ CountsMismatch(top_n_mw[idx + 1]))
          => (err' = "WorkflowError: counts" /\ pc' = "raised"
              /\ saved' = saved /\ mw_tsv_f' = mw_tsv_f
              /\ mw_html_f' = mw_html_f)]_vars

\* C2 witness: the error raised at the second OTU, after one row was written
C2_Witness ==
    err = "WorkflowError: counts" /\ idx = 1 /\ Len(TsvRows) = 1

\* the eight steps in their order: program and start of the description
ExpectedSteps ==
    << <<"filter_otus_from_otu_table.py", "Filtering out all GG reference OTUs">>,
       <<"filter_otus_from_otu_table.py",
         "Filtering out all OTUs that do not fall within the specified abundance threshold">>,
       <<"summarize_otu_by_cat.py", "Collapsing OTU table by ">>,
       <<"filter_otus_from_otu_table.py",
         "Filtering OTU table to include only OTUs that appear in at least ">>,
       <<"filter_fasta.py",
         "Filtering representative set to include only the latest candidate OTUs">>,
       <<"parallel_pick_otus_uclust_ref.py",
         "Running uclust to get list of sequences that don't hit the maximum GG similarity threshold">>,
       <<"filter_fasta.py",
         "Filtering candidate sequences to only include uclust failures">>,
       <<"parallel_blast.py", "BLASTing candidate sequences against nt database">> >>

InOrder(cmds) ==
    /\ Len(cmds) <= Len(ExpectedSteps)
    /\ \A k \in 1..Len(cmds) :
          /\ Len(cmds[k]) = 1
          /\ cmds[k][1].prog = ExpectedSteps[k][1]
          /\ cmds[k][1].desc[1] = ExpectedSteps[k][2]

\* C3: the command list grows in the fixed order of the eight steps, each
\* entry a group of one command; command_handler is called exactly once, with
\* all eight; nothing is read and no report file or chart is written before
\* that call, and a finished run made the call.
C3_CommandsBuiltThenHandledOnce ==
    /\ [](/\ InOrder(commands)
          /\ Len(handlerCalls) <= 1
          /\ \A c \in 1..Len(handlerCalls) :
                /\ Len(handlerCalls[c].commands) = 8
                /\ InOrder(handlerCalls[c].commands)
          /\ (opened # <<>> \/ ReportOpened \/ saved # <<>> \/ log # <<>>)
                => Len(handlerCalls) = 1
          /\ pc = "done" => Len(handlerCalls) = 1)
    /\ [][/\ (commands' # commands =>
                /\ handlerCalls = <<>>
                /\ \E g \in {CmdFilterGG, CmdFilterAbundance, CmdCollapse,
                             CmdFilterMinSamples, CmdFilterRepSet, CmdUclust,
                             CmdFilterFailures, CmdBlast} :
                      commands' = Append(commands, g))
          /\ (handlerCalls' # handlerCalls => Len(commands) = 8)]_vars

\* C3 witness: a finished run with a reported row
C3_Witness ==
    pc = "done" /\ Len(handlerCalls) = 1 /\ Len(TsvRows) > 0 /\ Len(opened) = 3

\* C4: in a finished run the report rows are hits of the BLAST output, as
\* many as min(top_n, number of hits), in non-decreasing order of percent
\* identity, and every hit left out has a percent identity at least that of
\* every reported hit.
C4_RowsAreLowestIdentityHits ==
    pc = "done" =>
        /\ Len(TsvRows) = Min(args.top_n, Len(HitLines))
        /\ Len(HtmlRows) = Len(TsvRows)
        /\ \A k \in 1..(Len(RowKeys) - 1) : RowKeys[k][3] <= RowKeys[k + 1][3]
        /\ \A k \in 1..Len(RowKeys) :
              CountIn(RowKeys, RowKeys[k]) <= CountIn(HitKeys, RowKeys[k])
        /\ \A h \in 1..Len(HitKeys) :
              CountIn(RowKeys, HitKeys[h]) < CountIn(HitKeys, HitKeys[h])
                 => \A k \in 1..Len(RowKeys) : RowKeys[k][3] <= HitKeys[h][3]

\* C4 witness: two hits whose file order is not the sorted order, the one
\* of lower identity reported and the other left out
C4_Witness ==
    /\ pc = "done"
    /\ Len(HitLines) = 2 /\ Len(TsvRows) = 1
    /\ HitKeys[1][3] > HitKeys[2][3]
    /\ RowKeys[1] = HitKeys[2]

ExpectedTsvColumns ==
    << <<"OTU ID">>, <<"Sequence">>, <<"Greengenes taxonomy">>,
       <<"NCBI nt closest match">>, <<"NCBI nt % identity">> >>

ExpectedHtmlColumns ==
    ExpectedTsvColumns \o << <<"Abundance by ">> \o args.mapping_category >>

\* C5 as stated: both tables have six columns, in the header and in every
\* data row.
C5_BothTablesHaveSixColumns ==
    pc = "done" =>
        /\ Len(Fields(mw_tsv_f.out[1])) = 6
        /\ Len(Cells(mw_html_f.out[1], "<th>", "</th>")) = 6
        /\ \A k \in 1..Len(TsvRows) : Len(Fields(TsvRows[k])) = 6
        /\ \A k \in 1..Len(HtmlRows) : Len(Cells(HtmlRows[k], "<td>", "</td>")) = 6

\* C5 amended: the HTML table has the six columns OTU ID, Sequence,
\* Greengenes taxonomy, NCBI nt closest match, NCBI nt % identity and
\* Abundance by <category>, in the header row and in every data row; the TSV
\* table has only the first five, in the header line and in every data line
\* (it has no abundance column).
C5_HtmlSixColumnsTsvFive ==
    ReportOpened =>
        /\ Fields(mw_tsv_f.out[1]) = ExpectedTsvColumns
        /\ Cells(mw_html_f.out[1], "<th>", "</th>") = ExpectedHtmlColumns
        /\ \A k \in 1..Len(TsvRows) : Len(Fields(TsvRows[k])) = 5
        /\ \A k \in 1..Len(HtmlRows) : Len(Cells(HtmlRows[k], "<td>", "</td>")) = 6

\* C5 witness: a finished report with two data rows
C5_Witness ==
    pc = "done" /\ Len(TsvRows) = 2 /\ Len(HtmlRows) = 2

\* the chart path an HTML row refers to
ImgSrc(row) ==
    SubSeq(row, Find(row, "<img src=\"") + 1, Find(row, "\" />") - 1)

\* C6 as stated: after a successful run every row has its chart saved at
\* img/abundance_by_<category>_<otu id>.png under the output directory, the
\* HTML row refers to that relative path, and there are as many chart files
\* as report rows.
C6_OneChartFilePerRow ==
    pc = "done" =>
        /\ \A k \in 1..Len(TsvRows) :
              LET otu == Fields(TsvRows[k])[1]
                  rel == <<"img", "/", "abundance_by_">> \o args.mapping_category
                         \o <<"_">> \o otu \o <<".", "png">>
              IN /\ join(args.output_dir, rel) \in {saved[j] : j \in 1..Len(saved)}
                 /\ ImgSrc(HtmlRows[k]) = rel
        /\ Cardinality({saved[j] : j \in 1..Len(saved)}) = Len(TsvRows)

\* a path strictly below the directory dir
Under(dir, path) ==
    /\ Len(path) > Len(dir)
    /\ IsPrefix(dir, path)
    /\ (dir[Len(dir)] = "/" \/ path[Len(dir) + 1] = "/")

\* the file name of a path without directory and extension:
\* everything after the last "/" up to the last "." behind it
Stem(path) ==
    LET name == SubSeq(path, RFind(path, "/") + 1, Len(path))
        dot == RFind(name, ".")
    IN IF dot > 1 THEN SubSeq(name, 1, dot - 1) ELSE name

\* C7: in the command list handed to command_handler every step reads what
\* the step before it was told to write (novel table -> abundance-filtered
\* table -> collapsed table -> minimum-sample-group table -> candidate set
\* -> uclust directory and its failures list -> failures FASTA -> BLAST
\* directory), every path written lies under output_dir, and the three
\* files read afterwards are the BLAST result inside the BLAST directory
\* (named after the FASTA that was BLASTed), the failures FASTA and the
\* minimum-sample-group table.
C7_UnbrokenFileChain ==
    handlerCalls # <<>> =>
        LET c == handlerCalls[1].commands
            O(k, flag) == Opt(c, k, flag)
        IN /\ O(2, "-i") = O(1, "-o")
           /\ O(3, "-c") = O(2, "-o")
           /\ O(4, "-i") = O(3, "-o")
           /\ O(5, "-b") = O(4, "-o")
           /\ O(6, "-i") = O(5, "-o")
           /\ O(7, "-f") = O(5, "-o")
           /\ Under(O(6, "-o"), O(7, "-s"))
           /\ O(7, "-s")
                = join(O(6, "-o"), Stem(O(6, "-i")) \o <<"_failures", ".", "txt">>)
           /\ O(8, "-i") = O(7, "-o")
           /\ \A k \in 1..8 : Under(args.output_dir, O(k, "-o"))
           /\ Cardinality({O(k, "-o") : k \in 1..8}) = 8
           /\ Len(opened) >= 1 =>
                 /\ Under(O(8, "-o"), opened[1])
                 /\ opened[1]
                      = join(O(8, "-o"), Stem(O(8, "-i")) \o <<"_blast_out", ".", "txt">>)
           /\ Len(opened) >= 3 =>
                 /\ opened[2] = O(7, "-o")
                 /\ opened[3] = O(4, "-o")
           /\ Len(opened) <= 3

\* C7 witness: a finished run whose inputs lie in other directories, one of
\* them with a dot in the directory name and no extension
C7_Witness ==
    /\ pc = "done"
    /\ args.rep_set_fp = <<"/", "d", ".", "v", "/", "rep">>
    /\ args.otu_table_fp = <<"in", "/", "otus", ".", "biom">>
    /\ args.output_dir = <<"/", "w", "/", "out", "/">>
    /\ Len(opened) = 3

\* the place of the i-th hit of the file in the order by percent identity
\* with ties left in file order: behind every hit of smaller identity and
\* every earlier hit of equal identity
StableRank(keys, i) ==
    Cardinality({j \in 1..Len(keys) :
                    \/ keys[j][3] < keys[i][3]
                    \/ keys[j][3] = keys[i][3] /\ j < i}) + 1

\* C8: the selected hits are the first top_n of the hits ordered by percent
\* identity with ties left in file order: a hit is reported ahead of, and
\* cut off after, every hit of equal identity that follows it in the file.
C8_TiesKeepFileOrder ==
    pc \in {"read_candidates", "done"} =>
        LET n == Min(args.top_n, Len(HitKeys))
        IN /\ Len(top_n_mw) = n
           /\ \A i \in 1..Len(HitKeys) :
                 LET r == StableRank(HitKeys, i)
                 IN r <= n =>
                      /\ top_n_mw[r][1] = HitKeys[i][1]
                      /\ Split(top_n_mw[r][2], "|")[4] = HitKeys[i][2]
                      /\ top_n_mw[r][3] = HitKeys[i][3]
                      /\ pc = "done" => RowKeys[r] = HitKeys[i]

\* C8 witness: two hits of equal identity, the earlier one reported and the
\* later one cut off
C8_Witness ==
    /\ pc = "done"
    /\ Len(HitKeys) = 2 /\ Len(TsvRows) = 1
    /\ HitKeys[1][3] = HitKeys[2][3]
    /\ HitKeys[1] # HitKeys[2]
    /\ RowKeys[1] = HitKeys[1]

\* C9: command_handler is told not to close the logger; the logger is open
\* from the call to the last statement and every status message is written
\* to the open logger; a finished run has closed the TSV file, the HTML
\* file and the logger once each, after the last row and the closing table
\* tag, and nothing is written to a closed file or logger; a run ended by
\* the count-mismatch error leaves all three open.
C9_LoggerAndFilesClosedOnceAtEnd ==
    /\ [](/\ \A c \in 1..Len(handlerCalls) :
                ~handlerCalls[c].close_logger_on_success
          /\ \A m \in 1..Len(log) : log[m].open
          /\ pc \in {"read_blast", "read_candidates", "open_reports",
                     "report_loop", "close_tsv", "close_html", "close_logger"}
                => logger = "open" /\ loggerCloses = 0
          /\ loggerCloses <= 1 /\ mw_tsv_f.closes <= 1 /\ mw_html_f.closes <= 1
          /\ (mw_tsv_f.closes > 0 \/ mw_html_f.closes > 0 \/ loggerCloses > 0)
                => /\ idx = Len(top_n_mw)
                   /\ Len(TsvRows) = Len(top_n_mw)
                   /\ mw_html_f.out[Len(mw_html_f.out)] = <<"</table>">>
          /\ pc = "done"
                => /\ logger = "closed" /\ loggerCloses = 1
                   /\ mw_tsv_f.state = "closed" /\ mw_tsv_f.closes = 1
                   /\ mw_html_f.state = "closed" /\ mw_html_f.closes = 1
                   /\ Len(log) = 3
          /\ err = "WorkflowError: counts"
                => /\ logger = "open" /\ loggerCloses = 0
                   /\ mw_tsv_f.state = "open" /\ mw_tsv_f.closes = 0
                   /\ mw_html_f.state = "open" /\ mw_html_f.closes = 0)
    /\ [][/\ mw_tsv_f.state = "closed" => mw_tsv_f'.out = mw_tsv_f.out
          /\ mw_html_f.state = "closed" => mw_html_f'.out = mw_html_f.out
          /\ logger = "closed" => log' = log
          /\ log' # log => logger = "open"]_vars

\* C9 witness: a finished run with rows, everything closed
C9_Witness ==
    /\ pc = "done"
    /\ logger = "closed" /\ loggerCloses = 1
    /\ mw_tsv_f.closes = 1 /\ mw_html_f.closes = 1
    /\ Len(TsvRows) = 2

====
